---- MODULE Spec2Model ----
(***************************************************************************)
(* tabstijl (src/src/main.cpp): reads delimited text from stdin, collects  *)
(* it into rows of cells, computes one width per column and prints the     *)
(* rows as an aligned, bordered table.                                     *)
(*                                                                         *)
(* Strings are sequences of one-character strings; an output stream is a   *)
(* sequence of tokens, each token one glyph, one ANSI escape sequence or   *)
(* the line terminator.  All characters of the model are single-byte, so   *)
(* std::string::length() is Len.                                           *)
(***************************************************************************)
EXTENDS Integers, Sequences, FiniteSets, TLC

(***************************************************************************)
(* Bounds of the model.                                                    *)
(***************************************************************************)
MaxInputLen == 4      \* longest enumerated stdin (tokenizer inputs)
MaxTableLen == 4      \* longest enumerated stdin (layout inputs)
MaxPadding == 1       \* largest --padding value
MaxTextLen == 3       \* longest text handed to align_text on its own
MaxWidth == 5         \* largest width handed to align_text on its own
MaxCols == 3          \* longest width list handed to get_tab_border
MaxArgs == 2          \* longest command line (arguments after the program name)
MaxColWidth == 2      \* largest width in such a list

(***************************************************************************)
(* Program constants (#define lines 75-111).                               *)
(***************************************************************************)
DEFAULT == "ESC[0m"
BOLD == "ESC[1m"
INVERSE == "ESC[7m"
ITALIC == "ESC[3m"
STRIKETHROUGH == "ESC[9m"
UNDERLINE == "ESC[4m"
BLACK == "ESC[30m"
BLUE == "ESC[34m"
CYAN == "ESC[36m"
GREEN == "ESC[32m"
MAGENTA == "ESC[35m"
RED == "ESC[31m"
WHITE == "ESC[37m"
YELLOW == "ESC[33m"
BG_BLACK == "ESC[40m"
BG_BLUE == "ESC[44m"
BG_CYAN == "ESC[46m"
BG_GREEN == "ESC[42m"
BG_MAGENTA == "ESC[45m"
BG_RED == "ESC[41m"
BG_WHITE == "ESC[47m"
BG_YELLOW == "ESC[43m"
NEWLINE == "\n"
SPACE == " "
TAB == "\t"
VOID == "NUL"
ALIGN_LEFT == "left"
ALIGN_CENTER == "center"
ALIGN_RIGHT == "right"
ENDL == "\n"

Alignments == {ALIGN_LEFT, ALIGN_CENTER, ALIGN_RIGHT}

\* The ANSI escape sequences the program can print.
Escapes ==
    {DEFAULT, BOLD, INVERSE, ITALIC, STRIKETHROUGH, UNDERLINE,
     BLACK, BLUE, CYAN, GREEN, MAGENTA, RED, WHITE, YELLOW,
     BG_BLACK, BG_BLUE, BG_CYAN, BG_GREEN, BG_MAGENTA, BG_RED, BG_WHITE, BG_YELLOW}

\* tab_border presets: main() lines 368-397.
tab_border_style_default ==
    [top |-> [left |-> "U+250C", mid |-> "U+252C", right |-> "U+2510", fill |-> "U+2500"],
     separator |-> [left |-> "U+251C", mid |-> "U+253C", right |-> "U+2524", fill |-> "U+2500"],
     bottom |-> [left |-> "U+2514", mid |-> "U+2534", right |-> "U+2518", fill |-> "U+2500"],
     vertical_line |-> "U+2502"]

double_border_style ==
    [top |-> [left |-> "U+2554", mid |-> "U+2566", right |-> "U+2557", fill |-> "U+2550"],
     separator |-> [left |-> "U+2560", mid |-> "U+256C", right |-> "U+2563", fill |-> "U+2550"],
     bottom |-> [left |-> "U+255A", mid |-> "U+2569", right |-> "U+255D", fill |-> "U+2550"],
     vertical_line |-> "U+2551"]

heavy_border_style ==
    [top |-> [left |-> "U+250F", mid |-> "U+2533", right |-> "U+2513", fill |-> "U+2501"],
     separator |-> [left |-> "U+2523", mid |-> "U+254B", right |-> "U+252B", fill |-> "U+2501"],
     bottom |-> [left |-> "U+2517", mid |-> "U+253B", right |-> "U+251B", fill |-> "U+2501"],
     vertical_line |-> "U+2503"]

star_border_style ==
    [top |-> [left |-> "U+2732", mid |-> "U+2732", right |-> "U+2732", fill |-> "U+2732"],
     separator |-> [left |-> "U+2732", mid |-> "U+2732", right |-> "U+2732", fill |-> "U+2732"],
     bottom |-> [left |-> "U+2732", mid |-> "U+2732", right |-> "U+2732", fill |-> "U+2732"],
     vertical_line |-> "U+2551"]

(***************************************************************************)
(* Helpers.                                                                *)
(***************************************************************************)
SeqsUpTo(S, n) == UNION {[1..k -> S] : k \in 0..n}

Max2(a, b) == IF a >= b THEN a ELSE b

\* std::string(n, SPACE)
Spaces(n) == [i \in 1..n |-> SPACE]

\* A std::string printed to a stream: one token when it is not empty.
Tok(s) == IF s = "" THEN <<>> ELSE <<s>>

(***************************************************************************)
(* get_tab_border, lines 167-202.  The int/size_t mix of the original      *)
(* wraps modulo 2^64 and converts back to int, which on the small values   *)
(* of the model is ordinary integer arithmetic.                            *)
(***************************************************************************)
RECURSIVE SumWidths(_)
SumWidths(col_width) ==
    IF col_width = <<>> THEN 0 ELSE Head(col_width) + SumWidths(Tail(col_width))

\* The junction test of line 195, after the last fill glyph of a column.
BorderJunction(width, temp_col_width, max_col_width) ==
    width >= 1 /\ temp_col_width < max_col_width - 1

\* The loop of lines 188-197 from column st_index (0-based) on.
RECURSIVE BorderColumns(_, _, _, _, _, _, _)
BorderColumns(st_index, max_col_count, col_width, temp_col_width, max_col_width, mid_char_unicode, fill_char_unicode) ==
    IF st_index >= max_col_count THEN <<>>
    ELSE LET width == col_width[st_index + 1]
             temp == temp_col_width + width - 1
         IN  [nd_index \in 1..width |-> fill_char_unicode]
             \o (IF BorderJunction(width, temp, max_col_width)
                 THEN <<mid_char_unicode>> ELSE <<>>)
             \o BorderColumns(st_index + 1, max_col_count, col_width, temp,
                              max_col_width, mid_char_unicode, fill_char_unicode)

get_tab_border(max_col_count, col_width, left_char_unicode, mid_char_unicode, right_char_unicode, fill_char_unicode, table_color) ==
    LET max_col_width == SumWidths(col_width) - (Len(col_width) - 1)
    IN  Tok(table_color)
        \o <<left_char_unicode>>
        \o BorderColumns(0, max_col_count, col_width, 0, max_col_width,
                         mid_char_unicode, fill_char_unicode)
        \o <<right_char_unicode, DEFAULT, ENDL>>

(***************************************************************************)
(* is_wspace, lines 232-247.                                               *)
(***************************************************************************)
\* isspace() in the "C" locale; "VT" stands for the vertical tab.
isspace(c) == c \in {" ", "\t", "\n", "\r", "\f", "VT"}

\* is_wspace without regard to the configured separator.
is_wspace_any(current_char, col_separator_arg) == isspace(current_char)

\* is_wspace without the newline of the exact-match branch.
is_wspace_exact(current_char, col_separator_arg) ==
    IF col_separator_arg \in {NEWLINE, SPACE, TAB}
    THEN current_char = col_separator_arg
    ELSE isspace(current_char)

is_wspace(current_char, col_separator_arg) ==
    IF col_separator_arg \in {NEWLINE, SPACE, TAB}
    THEN current_char = col_separator_arg \/ current_char = NEWLINE
    ELSE isspace(current_char)

(***************************************************************************)
(* align_text, lines 264-305: the pair (column width, aligned string).     *)
(***************************************************************************)
\* The padding amount without regard to the text's length.
AlignPadding_full(tab_col_width, string_length) == tab_col_width

\* The padding amount of lines 277, 287 and 301.
AlignPadding(tab_col_width, string_length) ==
    IF tab_col_width > string_length THEN tab_col_width - string_length ELSE 0

\* The left share rounded up instead of down.
CenterLeftPadding_ceil(col_total_padding) == (col_total_padding + 1) \div 2

\* The left share of a centred padding, line 290.
CenterLeftPadding(col_total_padding) == col_total_padding \div 2

align_text(string_to_align, tab_col_width, text_alignment) ==
    LET string_length == Len(string_to_align)
        col_padding_amt == AlignPadding(tab_col_width, string_length)
    IN  IF text_alignment = ALIGN_RIGHT
        THEN <<tab_col_width, Spaces(col_padding_amt) \o string_to_align>>
        ELSE IF text_alignment = ALIGN_CENTER
        THEN LET col_left_padding == CenterLeftPadding(col_padding_amt)
                 col_right_padding == col_padding_amt - col_left_padding
             IN  <<tab_col_width,
                   Spaces(col_left_padding) \o string_to_align \o Spaces(col_right_padding)>>
        ELSE <<tab_col_width, string_to_align \o Spaces(col_padding_amt)>>

\* cout << setw(width) << left << text, line 1201.
SetwLeft(width, text) ==
    text \o Spaces(IF width > Len(text) THEN width - Len(text) ELSE 0)

(***************************************************************************)
(* Option handlers, lines 550-1045.  A command-line argument is the         *)
(* sequence of its characters; argv holds the arguments the loop has not   *)
(* handled yet.                                                            *)
(***************************************************************************)
\* The value of a mapping for a string it does not know.
Invalid == "invalid"

\* std::string::npos for the 1-based positions of find.
npos == 0

\* Lines 215-217: domain_string.rfind(string_to_find, 0) == 0.
starts_with(domain_string, string_to_find) ==
    /\ Len(string_to_find) <= Len(domain_string)
    /\ SubSeq(domain_string, 1, Len(string_to_find)) = string_to_find

\* option.find("="): the position of the first occurrence, or npos.
find(option, char) ==
    IF \E k \in 1..Len(option) : option[k] = char
    THEN CHOOSE k \in 1..Len(option) :
            option[k] = char /\ \A j \in 1..(k - 1) : option[j] # char
    ELSE npos

\* option.substr(0, equal_sign_pos).
option_key_of(option, equal_sign_pos) == SubSeq(option, 1, equal_sign_pos - 1)

\* option.substr(equal_sign_pos + 1).
option_value_of(option, equal_sign_pos) == SubSeq(option, equal_sign_pos + 1, Len(option))

\* Line 615: getline(option_value_ss, option_value_token, ',') until it fails.
RECURSIVE getline(_, _)
getline(option_value, option_value_token) ==
    IF option_value = <<>>
    THEN (IF option_value_token = <<>> THEN <<>> ELSE <<option_value_token>>)
    ELSE IF Head(option_value) = ","
    THEN <<option_value_token>> \o getline(Tail(option_value), <<>>)
    ELSE getline(Tail(option_value), Append(option_value_token, Head(option_value)))

INT_MAX == 2147483647

Digits == <<"0", "1", "2", "3", "4", "5", "6", "7", "8", "9">>

IsDigit(char) == \E d \in 1..10 : Digits[d] = char

DigitValue(char) == (CHOOSE d \in 1..10 : Digits[d] = char) - 1

\* The leading digits of a text as a number, -1 past INT_MAX.
RECURSIVE LeadingNumber(_, _)
LeadingNumber(text, value) ==
    IF text = <<>> \/ ~IsDigit(Head(text)) THEN value
    ELSE IF value > (INT_MAX - DigitValue(Head(text))) \div 10 THEN -1
    ELSE LeadingNumber(Tail(text), value * 10 + DigitValue(Head(text)))

RECURSIVE SkipSpace(_)
SkipSpace(text) ==
    IF text # <<>> /\ isspace(Head(text)) THEN SkipSpace(Tail(text)) ELSE text

\* std::stoi, line 819: leading whitespace, a sign, then digits; what
\* follows the digits is ignored.
stoi(text) ==
    LET unsigned == SkipSpace(text)
        negative == unsigned # <<>> /\ Head(unsigned) = "-"
        digits == IF unsigned # <<>> /\ Head(unsigned) \in {"-", "+"}
                  THEN Tail(unsigned) ELSE unsigned
        number == LeadingNumber(digits, 0)
    IN  IF digits = <<>> \/ ~IsDigit(Head(digits))
        THEN [error |-> "invalid_argument", value |-> 0]
        ELSE IF number = -1 THEN [error |-> "out_of_range", value |-> 0]
        ELSE [error |-> "", value |-> IF negative THEN 0 - number ELSE number]

\* The ways a handler ends: continue, return 1, return 0.
Continue(cfg) == [outcome |-> "continue", cfg |-> cfg, out |-> <<>>]

ReturnError(cfg) == [outcome |-> "return 1", cfg |-> cfg, out |-> <<>>]

ReturnOutput(cfg, out) == [outcome |-> "return 0", cfg |-> cfg, out |-> out]

\* Lines 562-588.
border_style_option(cfg, option) ==
    LET equal_sign_pos == find(option, "=")
        option_value == option_value_of(option, equal_sign_pos)
    IN  IF equal_sign_pos = npos THEN ReturnError(cfg)
        ELSE IF option_value = <<"d", "o", "u", "b", "l", "e">>
        THEN Continue([cfg EXCEPT !.tab_border_style = double_border_style])
        ELSE IF option_value = <<"h", "e", "a", "v", "y">>
        THEN Continue([cfg EXCEPT !.tab_border_style = heavy_border_style])
        ELSE IF option_value = <<"s", "t", "a", "r">>
        THEN Continue([cfg EXCEPT !.tab_border_style = star_border_style])
        ELSE ReturnError(cfg)

\* Lines 599-634: the names are appended to the header data.
hdata_option(cfg, option) ==
    LET equal_sign_pos == find(option, "=")
        option_value == option_value_of(option, equal_sign_pos)
    IN  IF equal_sign_pos = npos \/ option_value = <<>> THEN ReturnError(cfg)
        ELSE Continue([cfg EXCEPT !.usrinput_header_data = @ \o getline(option_value, <<>>)])

\* Lines 657-659.
text_align_of(option_value) ==
    CASE option_value = <<"l", "e", "f", "t">> -> ALIGN_LEFT
      [] option_value = <<"c", "e", "n", "t", "e", "r">> -> ALIGN_CENTER
      [] option_value = <<"r", "i", "g", "h", "t">> -> ALIGN_RIGHT
      [] OTHER -> Invalid

\* Lines 637-684.
text_align_option(cfg, option) ==
    LET equal_sign_pos == find(option, "=")
        option_key == option_key_of(option, equal_sign_pos)
        align == text_align_of(option_value_of(option, equal_sign_pos))
    IN  IF equal_sign_pos = npos \/ align = Invalid THEN ReturnError(cfg)
        ELSE IF option_key = <<"-", "-", "t", "e", "x", "t", "-", "a", "l", "i", "g", "n">>
        THEN Continue([cfg EXCEPT !.header_text_align = align, !.body_text_align = align])
        ELSE IF option_key = <<"-", "-", "h", "t", "e", "x", "t", "-", "a", "l", "i", "g", "n">>
        THEN Continue([cfg EXCEPT !.header_text_align = align])
        ELSE Continue([cfg EXCEPT !.body_text_align = align])

\* Lines 707-714.
bg_color_of(option_value) ==
    CASE option_value = <<"b", "l", "a", "c", "k">> -> BG_BLACK
      [] option_value = <<"b", "l", "u", "e">> -> BG_BLUE
      [] option_value = <<"c", "y", "a", "n">> -> BG_CYAN
      [] option_value = <<"g", "r", "e", "e", "n">> -> BG_GREEN
      [] option_value = <<"m", "a", "g", "e", "n", "t", "a">> -> BG_MAGENTA
      [] option_value = <<"r", "e", "d">> -> BG_RED
      [] option_value = <<"w", "h", "i", "t", "e">> -> BG_WHITE
      [] option_value = <<"y", "e", "l", "l", "o", "w">> -> BG_YELLOW
      [] OTHER -> Invalid

\* Lines 687-736.
bg_color_option(cfg, option) ==
    LET equal_sign_pos == find(option, "=")
        option_key == option_key_of(option, equal_sign_pos)
        color == bg_color_of(option_value_of(option, equal_sign_pos))
    IN  IF equal_sign_pos = npos \/ color = Invalid THEN ReturnError(cfg)
        ELSE IF option_key = <<"-", "-", "b", "g", "-", "c", "o", "l", "o", "r">>
        THEN Continue([cfg EXCEPT !.colors.header_bg_color = color,
                                  !.colors.body_bg_color = color])
        ELSE IF option_key = <<"-", "-", "h", "b", "g", "-", "c", "o", "l", "o", "r">>
        THEN Continue([cfg EXCEPT !.colors.header_bg_color = color])
        ELSE Continue([cfg EXCEPT !.colors.body_bg_color = color])

\* Lines 760-764.
text_style_of(option_value) ==
    CASE option_value = <<"b", "o", "l", "d">> -> BOLD
      [] option_value = <<"i", "n", "v", "e", "r", "s", "e">> -> INVERSE
      [] option_value = <<"i", "t", "a", "l", "i", "c">> -> ITALIC
      [] option_value = <<"s", "t", "r", "i", "k", "e">> -> STRIKETHROUGH
      [] option_value = <<"u", "n", "d", "e", "r", "l", "i", "n", "e">> -> UNDERLINE
      [] OTHER -> Invalid

\* Lines 739-786.
text_style_option(cfg, option) ==
    LET equal_sign_pos == find(option, "=")
        option_key == option_key_of(option, equal_sign_pos)
        style == text_style_of(option_value_of(option, equal_sign_pos))
    IN  IF equal_sign_pos = npos \/ style = Invalid THEN ReturnError(cfg)
        ELSE IF option_key = <<"-", "-", "t", "e", "x", "t", "-", "s", "t", "y", "l", "e">>
        THEN Continue([cfg EXCEPT !.colors.header_text_style = style,
                                  !.colors.body_text_style = style])
        ELSE IF option_key = <<"-", "-", "h", "t", "e", "x", "t", "-", "s", "t", "y", "l", "e">>
        THEN Continue([cfg EXCEPT !.colors.header_text_style = style])
        ELSE Continue([cfg EXCEPT !.colors.body_text_style = style])

\* Lines 67-68.
PROGRAM_NAME == "tabstijl"
PROGRAM_VERSION == "0.0.1"

\* Lines 402-543: the logo and the help message, each as one token.
PROGRAM_LOGO == "PROGRAM_LOGO"
HELP_MESSAGE == "HELP_MESSAGE"

\* Lines 810-854.
padding_option(cfg, option) ==
    LET equal_sign_pos == find(option, "=")
        option_value == stoi(option_value_of(option, equal_sign_pos))
    IN  IF equal_sign_pos = npos \/ option_value.error # "" THEN ReturnError(cfg)
        ELSE IF option_value.value < 0 THEN ReturnError(cfg)
        ELSE Continue([cfg EXCEPT !.col_padding = option_value.value])

\* Lines 867-870.
separator_of(option_value) ==
    CASE option_value = <<"n", "e", "w", "l", "n">> -> NEWLINE
      [] option_value = <<"s", "p", "a", "c", "e">> -> SPACE
      [] option_value = <<"t", "a", "b">> -> TAB
      [] option_value = <<"w", "s", "p", "a", "c", "e">> -> VOID
      [] OTHER -> Invalid

\* Lines 857-887.
separator_option(cfg, option) ==
    LET equal_sign_pos == find(option, "=")
        separator == separator_of(option_value_of(option, equal_sign_pos))
    IN  IF equal_sign_pos = npos \/ separator = Invalid THEN ReturnError(cfg)
        ELSE Continue([cfg EXCEPT !.col_separator = separator])

\* The header row disabled and the first line of input kept.
simplify_option_headerless(cfg) == Continue([cfg EXCEPT !.headerless = TRUE])

\* Lines 891-896.
simplify_option(cfg) ==
    Continue([cfg EXCEPT !.headerless = TRUE, !.exclude_first_line = TRUE])

\* Lines 923-930.
text_color_of(option_value) ==
    CASE option_value = <<"b", "l", "a", "c", "k">> -> BLACK
      [] option_value = <<"b", "l", "u", "e">> -> BLUE
      [] option_value = <<"c", "y", "a", "n">> -> CYAN
      [] option_value = <<"g", "r", "e", "e", "n">> -> GREEN
      [] option_value = <<"m", "a", "g", "e", "n", "t", "a">> -> MAGENTA
      [] option_value = <<"r", "e", "d">> -> RED
      [] option_value = <<"w", "h", "i", "t", "e">> -> WHITE
      [] option_value = <<"y", "e", "l", "l", "o", "w">> -> YELLOW
      [] OTHER -> Invalid

\* Lines 899-953.
text_color_option(cfg, option) ==
    LET equal_sign_pos == find(option, "=")
        option_key == option_key_of(option, equal_sign_pos)
        color == text_color_of(option_value_of(option, equal_sign_pos))
    IN  IF equal_sign_pos = npos \/ color = Invalid THEN ReturnError(cfg)
        ELSE IF option_key = <<"-", "-", "t", "a", "b", "-", "c", "o", "l", "o", "r">>
        THEN Continue([cfg EXCEPT !.colors.table_color = color])
        ELSE IF option_key = <<"-", "-", "t", "e", "x", "t", "-", "c", "o", "l", "o", "r">>
        THEN Continue([cfg EXCEPT !.colors.header_text_color = color,
                                  !.colors.body_text_color = color])
        ELSE IF option_key = <<"-", "-", "b", "t", "e", "x", "t", "-", "c", "o", "l", "o", "r">>
        THEN Continue([cfg EXCEPT !.colors.body_text_color = color])
        ELSE Continue([cfg EXCEPT !.colors.header_text_color = color])

\* Lines 966-974.
theme_matrix(cfg) ==
    [cfg EXCEPT !.header_text_align = ALIGN_CENTER,
                !.tab_border_style = heavy_border_style,
                !.colors.table_color = GREEN,
                !.colors.header_text_style = BOLD,
                !.colors.header_text_color = GREEN,
                !.colors.body_text_color = GREEN,
                !.colors.body_text_style = BOLD]

\* Lines 975-983.
theme_mecha(cfg) ==
    [cfg EXCEPT !.header_text_align = ALIGN_CENTER,
                !.body_text_align = ALIGN_CENTER,
                !.tab_border_style = double_border_style,
                !.colors.header_text_style = BOLD,
                !.colors.header_bg_color = BG_CYAN,
                !.colors.body_bg_color = BG_MAGENTA,
                !.colors.body_text_style = UNDERLINE]

\* Lines 984-994.
theme_myth(cfg) ==
    [cfg EXCEPT !.header_text_align = ALIGN_CENTER,
                !.body_text_align = ALIGN_CENTER,
                !.tab_border_style = double_border_style,
                !.colors.table_color = RED,
                !.colors.header_bg_color = BG_RED,
                !.colors.header_text_style = BOLD,
                !.colors.header_text_color = WHITE,
                !.colors.body_text_color = MAGENTA,
                !.colors.body_bg_color = BG_BLACK]

\* Lines 995-1003.
theme_retro(cfg) ==
    [cfg EXCEPT !.header_text_align = ALIGN_CENTER,
                !.body_text_align = ALIGN_CENTER,
                !.tab_border_style = star_border_style,
                !.colors.header_text_style = BOLD,
                !.colors.header_bg_color = BG_RED,
                !.colors.body_bg_color = BG_YELLOW,
                !.colors.body_text_style = ITALIC]

\* Lines 1004-1012.
theme_sticky(cfg) ==
    [cfg EXCEPT !.header_text_align = ALIGN_CENTER,
                !.col_separator = TAB,
                !.tab_border_style = double_border_style,
                !.colors.header_text_style = BOLD,
                !.colors.header_bg_color = BG_GREEN,
                !.colors.body_bg_color = BG_YELLOW,
                !.colors.body_text_style = UNDERLINE]

\* Lines 957-1030.
theme_option(cfg, option) ==
    LET equal_sign_pos == find(option, "=")
        option_value == option_value_of(option, equal_sign_pos)
    IN  IF equal_sign_pos = npos THEN ReturnError(cfg)
        ELSE IF option_value = <<"m", "a", "t", "r", "i", "x">> THEN Continue(theme_matrix(cfg))
        ELSE IF option_value = <<"m", "e", "c", "h", "a">> THEN Continue(theme_mecha(cfg))
        ELSE IF option_value = <<"m", "y", "t", "h">> THEN Continue(theme_myth(cfg))
        ELSE IF option_value = <<"r", "e", "t", "r", "o">> THEN Continue(theme_retro(cfg))
        ELSE IF option_value = <<"s", "t", "i", "c", "k", "y">> THEN Continue(theme_sticky(cfg))
        ELSE ReturnError(cfg)

\* One iteration of the loop of lines 550-1045: the first handler whose test
\* the argument passes.
option_handler(cfg, option) ==
    IF option \in {<<"-", "b">>, <<"-", "-", "b", "o", "r", "d", "e", "r", "l", "e", "s", "s">>}
    THEN Continue([cfg EXCEPT !.use_border = FALSE])
    ELSE IF starts_with(option, <<"-", "-", "b", "o", "r", "d", "e", "r", "-", "s", "t", "y", "l", "e">>)
    THEN border_style_option(cfg, option)
    ELSE IF option \in {<<"-", "f">>, <<"-", "-", "f", "u", "s", "i", "o", "n">>}
    THEN Continue([cfg EXCEPT !.use_separator = FALSE])
    ELSE IF starts_with(option, <<"-", "-", "h", "d", "a", "t", "a">>)
    THEN hdata_option(cfg, option)
    ELSE IF starts_with(option, <<"-", "-", "h", "t", "e", "x", "t", "-", "a", "l", "i", "g", "n">>)
            \/ starts_with(option, <<"-", "-", "b", "t", "e", "x", "t", "-", "a", "l", "i", "g", "n">>)
            \/ starts_with(option, <<"-", "-", "t", "e", "x", "t", "-", "a", "l", "i", "g", "n">>)
    THEN text_align_option(cfg, option)
    ELSE IF starts_with(option, <<"-", "-", "h", "b", "g", "-", "c", "o", "l", "o", "r">>)
            \/ starts_with(option, <<"-", "-", "b", "b", "g", "-", "c", "o", "l", "o", "r">>)
            \/ starts_with(option, <<"-", "-", "b", "g", "-", "c", "o", "l", "o", "r">>)
    THEN bg_color_option(cfg, option)
    ELSE IF starts_with(option, <<"-", "-", "h", "t", "e", "x", "t", "-", "s", "t", "y", "l", "e">>)
            \/ starts_with(option, <<"-", "-", "b", "t", "e", "x", "t", "-", "s", "t", "y", "l", "e">>)
            \/ starts_with(option, <<"-", "-", "t", "e", "x", "t", "-", "s", "t", "y", "l", "e">>)
    THEN text_style_option(cfg, option)
    ELSE IF option \in {<<"-", "h">>, <<"-", "-", "h", "e", "l", "p">>}
    THEN ReturnOutput(cfg, <<ENDL, PROGRAM_LOGO, ENDL, HELP_MESSAGE>>)
    ELSE IF starts_with(option, <<"-", "-", "p", "a", "d", "d", "i", "n", "g">>)
    THEN padding_option(cfg, option)
    ELSE IF starts_with(option, <<"-", "-", "s", "e", "p", "a", "r", "a", "t", "o", "r">>)
    THEN separator_option(cfg, option)
    ELSE IF option \in {<<"-", "s">>, <<"-", "-", "s", "i", "m", "p", "l", "i", "f", "y">>}
    THEN simplify_option(cfg)
    ELSE IF starts_with(option, <<"-", "-", "t", "a", "b", "-", "c", "o", "l", "o", "r">>)
            \/ starts_with(option, <<"-", "-", "b", "t", "e", "x", "t", "-", "c", "o", "l", "o", "r">>)
            \/ starts_with(option, <<"-", "-", "h", "t", "e", "x", "t", "-", "c", "o", "l", "o", "r">>)
            \/ starts_with(option, <<"-", "-", "t", "e", "x", "t", "-", "c", "o", "l", "o", "r">>)
    THEN text_color_option(cfg, option)
    ELSE IF starts_with(option, <<"-", "-", "t", "h", "e", "m", "e">>)
    THEN theme_option(cfg, option)
    ELSE IF option \in {<<"-", "v">>, <<"-", "-", "v", "e", "r", "s", "i", "o", "n">>}
    THEN ReturnOutput(cfg, <<PROGRAM_NAME, " ", PROGRAM_VERSION, ENDL>>)
    ELSE ReturnError(cfg)

(***************************************************************************)
(* State of main(): the configuration left by the option handlers (lines   *)
(* 345-400), the parsing state (lines 1059-1066), the two streams and the  *)
(* position of the control flow.  call is the frame of a function called   *)
(* on its own.                                                             *)
(***************************************************************************)
VARIABLES
    headerless, exclude_first_line, first_line, use_border, use_separator,
    colors, header_text_align, body_text_align, usrinput_header_data,
    col_separator, tab_border_style, col_padding,
    stdin, pos, cmdout_char_queue, temp_row_data, cmdout_tab_data,
    tab_col_width, max_col_count, row_index, stdout, pc, call, argv

options == <<argv, headerless, exclude_first_line, use_border, use_separator,
             header_text_align, body_text_align, col_separator,
             tab_border_style, col_padding>>

vars == <<headerless, exclude_first_line, first_line, use_border, use_separator,
          colors, header_text_align, body_text_align, usrinput_header_data,
          col_separator, tab_border_style, col_padding,
          stdin, pos, cmdout_char_queue, temp_row_data, cmdout_tab_data,
          tab_col_width, max_col_count, row_index, stdout, pc, call, argv>>

\* The colour and style strings of lines 352-358 before any option.
no_colors ==
    [table_color |-> "", header_text_color |-> "", body_text_color |-> "",
     header_bg_color |-> "", body_bg_color |-> "",
     header_text_style |-> "", body_text_style |-> ""]

\* The colour and style strings --theme=myth sets, lines 988-993.
myth_colors ==
    [table_color |-> RED, header_text_color |-> WHITE, body_text_color |-> MAGENTA,
     header_bg_color |-> BG_RED, body_bg_color |-> BG_BLACK,
     header_text_style |-> BOLD, body_text_style |-> ""]

(***************************************************************************)
(* Inputs.                                                                 *)
(***************************************************************************)
TokenizerAlphabet == {"a", "b", " ", "\t", "\n", "\r"}
LayoutAlphabet == {"a", " ", "\n"}

ScenarioA == <<"a", " ", "b", "\n", "c", "c", "c", " ", "d", "d", "\n">>
ScenarioB == <<"x", "\n", "\n", "y", "\n">>
ScenarioC == <<"1", " ", "2", " ", "3", "\n", "4", " ", "5", "\n">>
ScenarioD == <<"x", " ", "y", "\n", "a", " ", "b", "\n">>
Scenarios == {ScenarioA, ScenarioB, ScenarioC, ScenarioD}

TokenizerInputs == SeqsUpTo(TokenizerAlphabet, MaxInputLen) \cup Scenarios
LayoutInputs == SeqsUpTo(LayoutAlphabet, MaxTableLen) \cup Scenarios

\* --hdata=id,name, split at the commas (line 615).
HeaderIdName == << <<"i", "d">>, <<"n", "a", "m", "e">> >>

no_call == [fn |-> "none"]

\* The state when the option loop of lines 550-1045 has ended.
InitMain(inputs, separators, paddings, simplify, borders, fusion, hdata, haligns, baligns, palettes) ==
    /\ stdin \in inputs
    /\ col_separator \in separators
    /\ col_padding \in paddings
    /\ headerless \in simplify
    /\ exclude_first_line = headerless
    /\ use_border \in borders
    /\ use_separator \in fusion
    /\ usrinput_header_data \in hdata
    /\ header_text_align \in haligns
    /\ body_text_align \in baligns
    /\ colors \in palettes
    /\ tab_border_style = tab_border_style_default
    /\ first_line = TRUE
    /\ pos = 0
    /\ cmdout_char_queue = <<>>
    /\ temp_row_data = <<>>
    /\ cmdout_tab_data = <<>>
    /\ tab_col_width = <<>>
    /\ max_col_count = 0
    /\ row_index = 0
    /\ stdout = <<>>
    /\ pc = "read"
    /\ call = no_call
    /\ argv = <<>>

\* Tokenizer and row collector over every separator policy.
Init ==
    InitMain(TokenizerInputs, {SPACE, TAB, NEWLINE, VOID}, {2}, BOOLEAN,
             {TRUE}, {TRUE}, {<<>>, HeaderIdName},
             {ALIGN_LEFT}, {ALIGN_LEFT}, {no_colors})

\* Layout and rendering over every padding, alignment and border option.
InitLayout ==
    InitMain(LayoutInputs, {SPACE}, 0..MaxPadding, BOOLEAN,
             BOOLEAN, BOOLEAN, {<<>>, HeaderIdName},
             Alignments, {ALIGN_LEFT, ALIGN_RIGHT},
             {no_colors, myth_colors})

(***************************************************************************)
(* Standard input parsing loop, lines 1073-1112.                           *)
(***************************************************************************)
\* Tokens discarded on every line when the first line is excluded.
PushToken_discard(queue, row, first, exclude) ==
    IF queue # <<>> /\ ~exclude THEN Append(row, queue) ELSE row

\* Lines 1077-1089: the queued characters become a token of the row.
PushToken(queue, row, first, exclude) ==
    IF queue # <<>> /\ (~first \/ ~exclude) THEN Append(row, queue) ELSE row

\* A row pushed into the table at every newline.
RowComplete_always(row) == TRUE

\* Line 1101: a row is pushed into the table when it has cells.
RowComplete(row) == row # <<>>

\* The stream taken to end at the end of every line.
EndOfFile_line(position, input) ==
    position = Len(input) \/ (position > 0 /\ input[position] = NEWLINE)

\* Line 1073: getchar() returns EOF when every character has been read.
EndOfFile(position, input) == position = Len(input)

ReadChar ==
    /\ pc = "read"
    /\ ~EndOfFile(pos, stdin)
    /\ pos' = pos + 1
    /\ LET cmdout_char == stdin[pos + 1]
           row == PushToken(cmdout_char_queue, temp_row_data,
                            first_line, exclude_first_line)
       IN  IF is_wspace(cmdout_char, col_separator)
           THEN /\ cmdout_char_queue' = <<>>
                /\ IF cmdout_char = NEWLINE
                   THEN IF first_line /\ exclude_first_line
                        THEN /\ first_line' = FALSE
                             /\ temp_row_data' = row
                             /\ UNCHANGED cmdout_tab_data
                        ELSE /\ UNCHANGED first_line
                             /\ IF RowComplete(row)
                                THEN /\ cmdout_tab_data' = Append(cmdout_tab_data, row)
                                     /\ temp_row_data' = <<>>
                                ELSE /\ temp_row_data' = row
                                     /\ UNCHANGED cmdout_tab_data
                   ELSE /\ temp_row_data' = row
                        /\ UNCHANGED <<first_line, cmdout_tab_data>>
           ELSE /\ cmdout_char_queue' = Append(cmdout_char_queue, cmdout_char)
                /\ UNCHANGED <<first_line, temp_row_data, cmdout_tab_data>>
    /\ UNCHANGED <<options, colors, usrinput_header_data, stdin, tab_col_width,
                   max_col_count, row_index, stdout, pc, call>>

(***************************************************************************)
(* Final token and row flush after EOF, lines 1119-1135.                   *)
(***************************************************************************)
\* The remaining characters dropped at the end of the stream.
FinalToken_dropped(queue, row) == row

\* Lines 1121-1132: the remaining characters become the last token.
FinalToken(queue, row) == IF queue # <<>> THEN Append(row, queue) ELSE row

FinalFlush ==
    /\ pc = "read"
    /\ EndOfFile(pos, stdin)
    /\ first_line' = TRUE
    /\ cmdout_char_queue' = <<>>
    /\ LET row == FinalToken(cmdout_char_queue, temp_row_data)
       IN  /\ temp_row_data' = row
           /\ cmdout_tab_data' = IF row # <<>> THEN Append(cmdout_tab_data, row)
                                 ELSE cmdout_tab_data
    /\ pc' = "header"
    /\ UNCHANGED <<options, colors, usrinput_header_data, stdin, pos, tab_col_width,
                   max_col_count, row_index, stdout, call>>

(***************************************************************************)
(* Header override, lines 1142-1147.  cmdout_tab_data[0] of an empty       *)
(* vector is undefined behaviour: the process is killed, or the write      *)
(* lands outside the table and the run goes on.                            *)
(***************************************************************************)
\* The header override applied even when the first line is excluded.
HeaderApplies_always(hdata, exclude) == hdata # <<>>

\* The test of line 1142.
HeaderApplies(hdata, exclude) == hdata # <<>> /\ ~exclude

\* The header data put before the first collected row.
HeaderOverride_insert(rows, hdata) == <<hdata>> \o rows

\* Line 1143: the header data takes the place of row 0.
HeaderOverride(rows, hdata) == [rows EXCEPT ![1] = hdata]

SetHeaderData ==
    /\ pc = "header"
    /\ IF HeaderApplies(usrinput_header_data, exclude_first_line)
       THEN IF cmdout_tab_data # <<>>
            THEN /\ cmdout_tab_data' = HeaderOverride(cmdout_tab_data, usrinput_header_data)
                 /\ usrinput_header_data' = <<>>
                 /\ pc' = "widths"
            ELSE \E outcome \in {"killed", "stray write"} :
                    /\ pc' = IF outcome = "killed" THEN "crash" ELSE "widths"
                    /\ usrinput_header_data' =
                          IF outcome = "killed" THEN usrinput_header_data ELSE <<>>
                    /\ UNCHANGED cmdout_tab_data
       ELSE /\ pc' = "widths"
            /\ UNCHANGED <<cmdout_tab_data, usrinput_header_data>>
    /\ UNCHANGED <<options, colors, first_line, stdin, pos, cmdout_char_queue,
                   temp_row_data, tab_col_width, max_col_count, row_index,
                   stdout, call>>

(***************************************************************************)
(* Column count and column widths, lines 1150-1165.                        *)
(***************************************************************************)
\* Line 1150.
RECURSIVE MaxColCount(_, _)
MaxColCount(rows, count) ==
    IF rows = <<>> THEN count
    ELSE MaxColCount(Tail(rows), Max2(count, Len(Head(rows))))

\* Line 1161 storing the cell length instead of the maximum.
WidthsWithRow_overwrite(widths, tab_row) ==
    [index \in 1..Len(widths) |->
        IF index <= Len(tab_row) THEN Len(tab_row[index]) ELSE widths[index]]

\* Line 1161 for one row.
WidthsWithRow(widths, tab_row) ==
    [index \in 1..Len(widths) |->
        IF index <= Len(tab_row) THEN Max2(widths[index], Len(tab_row[index]))
        ELSE widths[index]]

\* The widths taken from the first row alone.
MaxCellWidths_first(rows, widths) ==
    IF rows = <<>> THEN widths ELSE WidthsWithRow(widths, Head(rows))

\* Lines 1160-1162.
RECURSIVE MaxCellWidths(_, _)
MaxCellWidths(rows, widths) ==
    IF rows = <<>> THEN widths
    ELSE MaxCellWidths(Tail(rows), WidthsWithRow(widths, Head(rows)))

\* Line 1165.
AddPadding(widths, padding) == [index \in 1..Len(widths) |-> widths[index] + padding]

ComputeWidths ==
    /\ pc = "widths"
    /\ LET count == MaxColCount(cmdout_tab_data, max_col_count)
       IN  /\ max_col_count' = count
           /\ tab_col_width' =
                 AddPadding(MaxCellWidths(cmdout_tab_data, [index \in 1..count |-> 0]),
                            col_padding)
    /\ pc' = "render"
    /\ UNCHANGED <<options, colors, first_line, usrinput_header_data, stdin, pos,
                   cmdout_char_queue, temp_row_data, cmdout_tab_data, row_index,
                   stdout, call>>

(***************************************************************************)
(* Render loop, lines 1171-1221: one iteration prints one row.             *)
(***************************************************************************)
\* A missing cell filled with the row's first cell.
CellOrEmpty_first(tab_row, index) ==
    IF index < Len(tab_row) THEN tab_row[index + 1] ELSE tab_row[1]

\* Line 1189: the cell of the column index (0-based), or the empty string.
CellOrEmpty(tab_row, index) ==
    IF index < Len(tab_row) THEN tab_row[index + 1] ELSE <<>>

\* The header alignment kept for every row.
CellAlignment_header(first, simplify, header_align, body_align) ==
    IF ~simplify THEN header_align ELSE body_align

\* The alignment argument of line 1195.
CellAlignment(first, simplify, header_align, body_align) ==
    IF first /\ ~simplify THEN header_align
    ELSE IF ~first \/ simplify THEN body_align ELSE ALIGN_LEFT

\* The style prefix of lines 1199-1200.
CellStyle(first, simplify, c) ==
    (IF first /\ ~simplify
     THEN Tok(c.header_text_style) \o Tok(c.header_bg_color) \o Tok(c.header_text_color)
     ELSE <<>>)
    \o (IF ~first \/ simplify
        THEN Tok(c.body_text_style) \o Tok(c.body_bg_color) \o Tok(c.body_text_color)
        ELSE <<>>)

\* Lines 1189-1202 for the column index (0-based).
RenderCell(tab_row, index, widths, first, simplify, header_align, body_align, c, border, vertical_line) ==
    LET tab_cell == CellOrEmpty(tab_row, index)
        tab_col_data == align_text(tab_cell, widths[index + 1],
                                   CellAlignment(first, simplify, header_align, body_align))
    IN  CellStyle(first, simplify, c)
        \o SetwLeft(tab_col_data[1], tab_col_data[2])
        \o <<DEFAULT>> \o Tok(c.table_color)
        \o (IF border THEN <<vertical_line>> ELSE <<>>)

\* The loop of lines 1187-1203 from the column index on.
RECURSIVE RenderCells(_, _, _, _, _, _, _, _, _, _, _)
RenderCells(tab_row, index, count, widths, first, simplify, header_align, body_align, c, border, vertical_line) ==
    IF index >= count THEN <<>>
    ELSE RenderCell(tab_row, index, widths, first, simplify, header_align,
                    body_align, c, border, vertical_line)
         \o RenderCells(tab_row, index + 1, count, widths, first, simplify,
                        header_align, body_align, c, border, vertical_line)

\* get_tab_border called with one of the three glyph sets of the style.
Border(glyphs) ==
    get_tab_border(max_col_count, tab_col_width, glyphs.left, glyphs.mid,
                   glyphs.right, glyphs.fill, colors.table_color)

\* The header separator printed after every row.
SeparatorDue_every(first, simplify, border, separator) ==
    ~simplify /\ border /\ separator

\* The test of line 1209.
SeparatorDue(first, simplify, border, separator) ==
    first /\ ~simplify /\ border /\ separator

RenderRow ==
    /\ pc = "render"
    /\ row_index < Len(cmdout_tab_data)
    /\ LET tab_row == cmdout_tab_data[row_index + 1]
       IN  stdout' = stdout
              \o (IF first_line /\ use_border THEN Border(tab_border_style.top) ELSE <<>>)
              \o (IF use_border
                  THEN Tok(colors.table_color) \o <<tab_border_style.vertical_line, DEFAULT>>
                  ELSE <<>>)
              \o RenderCells(tab_row, 0, max_col_count, tab_col_width, first_line,
                             headerless, header_text_align, body_text_align, colors,
                             use_border, tab_border_style.vertical_line)
              \o <<ENDL>>
              \o (IF SeparatorDue(first_line, headerless, use_border, use_separator)
                  THEN Border(tab_border_style.separator) ELSE <<>>)
    /\ first_line' = FALSE
    /\ row_index' = row_index + 1
    /\ UNCHANGED <<options, colors, usrinput_header_data, stdin, pos,
                   cmdout_char_queue, temp_row_data, cmdout_tab_data,
                   tab_col_width, max_col_count, pc, call>>

(***************************************************************************)
(* After the loop, lines 1223-1252: the table is cleared, the bottom       *)
(* border is printed, the border colour and the widths are cleared.        *)
(***************************************************************************)
BottomBorder ==
    /\ pc = "render"
    /\ row_index = Len(cmdout_tab_data)
    /\ cmdout_tab_data' = <<>>
    /\ stdout' = stdout \o (IF use_border THEN Border(tab_border_style.bottom) ELSE <<>>)
    /\ colors' = [colors EXCEPT !.table_color = ""]
    /\ tab_col_width' = <<>>
    /\ pc' = "done"
    /\ UNCHANGED <<options, first_line, usrinput_header_data, stdin, pos,
                   cmdout_char_queue, temp_row_data, max_col_count, row_index, call>>

Next ==
    \/ ReadChar
    \/ FinalFlush
    \/ SetHeaderData
    \/ ComputeWidths
    \/ RenderRow
    \/ BottomBorder

Spec == Init /\ [][Next]_vars

SpecLayout == InitLayout /\ [][Next]_vars

(***************************************************************************)
(* Runs of main from its first statement: the option loop, then the        *)
(* pipeline.                                                               *)
(***************************************************************************)
\* Arguments the help text of lines 403-543 describes.
ValidArguments ==
    {<<"-", "s">>,
     <<"-", "-", "s", "i", "m", "p", "l", "i", "f", "y">>,
     <<"-", "b">>,
     <<"-", "f">>,
     <<"-", "h">>,
     <<"-", "v">>,
     <<"-", "-", "t", "h", "e", "m", "e", "=", "m", "a", "t", "r", "i", "x">>,
     <<"-", "-", "t", "h", "e", "m", "e", "=", "m", "y", "t", "h">>,
     <<"-", "-", "t", "h", "e", "m", "e", "=", "s", "t", "i", "c", "k", "y">>,
     <<"-", "-", "h", "b", "g", "-", "c", "o", "l", "o", "r", "=", "r", "e", "d">>,
     <<"-", "-", "b", "t", "e", "x", "t", "-", "s", "t", "y", "l", "e", "=", "i", "t", "a", "l", "i", "c">>,
     <<"-", "-", "b", "t", "e", "x", "t", "-", "a", "l", "i", "g", "n", "=", "r", "i", "g", "h", "t">>,
     <<"-", "-", "t", "a", "b", "-", "c", "o", "l", "o", "r", "=", "b", "l", "u", "e">>,
     <<"-", "-", "b", "o", "r", "d", "e", "r", "-", "s", "t", "y", "l", "e", "=", "s", "t", "a", "r">>,
     <<"-", "-", "t", "e", "x", "t", "-", "c", "o", "l", "o", "r", "=", "c", "y", "a", "n">>,
     <<"-", "-", "s", "e", "p", "a", "r", "a", "t", "o", "r", "=", "w", "s", "p", "a", "c", "e">>,
     <<"-", "-", "h", "d", "a", "t", "a", "=", "i", "d", ",", "n", "a", "m", "e">>,
     <<"-", "-", "p", "a", "d", "d", "i", "n", "g", "=", "0">>,
     <<"-", "-", "p", "a", "d", "d", "i", "n", "g", "=", "1">>}

\* Arguments with an unknown name, without a value or with an invalid value.
InvalidArguments ==
    {<<"-", "-", "b", "o", "g", "u", "s">>,
     <<"-", "-", "t", "h", "e", "m", "e", "=", "n", "o", "n", "e">>,
     <<"-", "-", "p", "a", "d", "d", "i", "n", "g">>,
     <<"-", "-", "p", "a", "d", "d", "i", "n", "g", "=", "-", "1">>,
     <<"-", "-", "p", "a", "d", "d", "i", "n", "g", "=", "x">>,
     <<"-", "-", "p", "a", "d", "d", "i", "n", "g", "=", "1", "x">>,
     <<"-", "-", "p", "a", "d", "d", "i", "n", "g", "x", "=", "1">>,
     <<"-", "-", "h", "t", "e", "x", "t", "-", "a", "l", "i", "g", "n", "m", "e", "n", "t", "=", "r", "i", "g", "h", "t">>,
     <<"-", "-", "s", "e", "p", "a", "r", "a", "t", "o", "r", "=", "c", "o", "m", "m", "a">>,
     <<"-", "-", "h", "d", "a", "t", "a", "=">>}

Arguments == ValidArguments \cup InvalidArguments

ArgumentLists == SeqsUpTo(Arguments, MaxArgs)

\* The input of the runs that start at the option loop.
OptionInputs == {ScenarioD}

\* The configuration the option handlers read and assign.
Configuration ==
    [headerless |-> headerless, exclude_first_line |-> exclude_first_line,
     use_border |-> use_border, use_separator |-> use_separator, colors |-> colors,
     header_text_align |-> header_text_align, body_text_align |-> body_text_align,
     usrinput_header_data |-> usrinput_header_data, col_separator |-> col_separator,
     tab_border_style |-> tab_border_style, col_padding |-> col_padding]

\* Lines 345-400: the configuration before any option.
DefaultConfiguration ==
    [headerless |-> FALSE, exclude_first_line |-> FALSE,
     use_border |-> TRUE, use_separator |-> TRUE, colors |-> no_colors,
     header_text_align |-> ALIGN_LEFT, body_text_align |-> ALIGN_LEFT,
     usrinput_header_data |-> <<>>, col_separator |-> SPACE,
     tab_border_style |-> tab_border_style_default, col_padding |-> 2]

\* The state at the start of main, before the first argument is handled.
InitOptions ==
    /\ argv \in ArgumentLists
    /\ stdin \in OptionInputs
    /\ headerless = DefaultConfiguration.headerless
    /\ exclude_first_line = DefaultConfiguration.exclude_first_line
    /\ use_border = DefaultConfiguration.use_border
    /\ use_separator = DefaultConfiguration.use_separator
    /\ colors = DefaultConfiguration.colors
    /\ header_text_align = DefaultConfiguration.header_text_align
    /\ body_text_align = DefaultConfiguration.body_text_align
    /\ usrinput_header_data = DefaultConfiguration.usrinput_header_data
    /\ col_separator = DefaultConfiguration.col_separator
    /\ tab_border_style = DefaultConfiguration.tab_border_style
    /\ col_padding = DefaultConfiguration.col_padding
    /\ first_line = TRUE
    /\ pos = 0
    /\ cmdout_char_queue = <<>>
    /\ temp_row_data = <<>>
    /\ cmdout_tab_data = <<>>
    /\ tab_col_width = <<>>
    /\ max_col_count = 0
    /\ row_index = 0
    /\ stdout = <<>>
    /\ pc = "options"
    /\ call = no_call

\* One iteration of the option loop: the handler continues with the next
\* argument or returns from main.
HandleOption ==
    /\ pc = "options"
    /\ argv # <<>>
    /\ \E result \in {option_handler(Configuration, Head(argv))} :
          /\ headerless' = result.cfg.headerless
          /\ exclude_first_line' = result.cfg.exclude_first_line
          /\ use_border' = result.cfg.use_border
          /\ use_separator' = result.cfg.use_separator
          /\ colors' = result.cfg.colors
          /\ header_text_align' = result.cfg.header_text_align
          /\ body_text_align' = result.cfg.body_text_align
          /\ usrinput_header_data' = result.cfg.usrinput_header_data
          /\ col_separator' = result.cfg.col_separator
          /\ tab_border_style' = result.cfg.tab_border_style
          /\ col_padding' = result.cfg.col_padding
          /\ stdout' = stdout \o result.out
          /\ IF result.outcome = "continue"
             THEN pc' = "options" /\ argv' = Tail(argv)
             ELSE pc' = result.outcome /\ argv' = argv
    /\ UNCHANGED <<first_line, stdin, pos, cmdout_char_queue, temp_row_data,
                   cmdout_tab_data, tab_col_width, max_col_count, row_index, call>>

\* Lines 1047-1066: every argument handled, the parsing state is set up.
EndOptions ==
    /\ pc = "options"
    /\ argv = <<>>
    /\ pc' = "read"
    /\ UNCHANGED <<options, colors, first_line, usrinput_header_data, stdin, pos,
                   cmdout_char_queue, temp_row_data, cmdout_tab_data, tab_col_width,
                   max_col_count, row_index, stdout, call>>

NextOptions ==
    \/ HandleOption
    \/ EndOptions
    \/ Next

SpecOptions == InitOptions /\ [][NextOptions]_vars

(***************************************************************************)
(* align_text and get_tab_border called on their own, over every argument  *)
(* within the bounds.                                                      *)
(***************************************************************************)
InitIdle ==
    /\ headerless = FALSE
    /\ exclude_first_line = FALSE
    /\ first_line = TRUE
    /\ use_border = TRUE
    /\ use_separator = TRUE
    /\ colors = no_colors
    /\ header_text_align = ALIGN_LEFT
    /\ body_text_align = ALIGN_LEFT
    /\ usrinput_header_data = <<>>
    /\ col_separator = SPACE
    /\ tab_border_style = tab_border_style_default
    /\ col_padding = 2
    /\ stdin = <<>>
    /\ pos = 0
    /\ cmdout_char_queue = <<>>
    /\ temp_row_data = <<>>
    /\ cmdout_tab_data = <<>>
    /\ tab_col_width = <<>>
    /\ max_col_count = 0
    /\ row_index = 0
    /\ stdout = <<>>
    /\ pc = "call"
    /\ argv = <<>>

InitAlign ==
    /\ InitIdle
    /\ \E text \in SeqsUpTo({"a", "b"}, MaxTextLen), width \in 0..MaxWidth,
          alignment \in Alignments :
          call = [fn |-> "align_text", string_to_align |-> text,
                  tab_col_width |-> width, text_alignment |-> alignment,
                  returned |-> FALSE, result |-> <<>>]

AlignCall ==
    /\ pc = "call"
    /\ call.fn = "align_text"
    /\ call' = [call EXCEPT !.returned = TRUE,
                            !.result = align_text(call.string_to_align,
                                                  call.tab_col_width,
                                                  call.text_alignment)]
    /\ pc' = "returned"
    /\ UNCHANGED <<options, colors, first_line, usrinput_header_data, stdin, pos,
                   cmdout_char_queue, temp_row_data, cmdout_tab_data,
                   tab_col_width, max_col_count, row_index, stdout>>

SpecAlign == InitAlign /\ [][AlignCall]_vars

BorderStyles ==
    {tab_border_style_default, double_border_style, heavy_border_style,
     star_border_style}

BorderGlyphSets ==
    UNION {{style.top, style.separator, style.bottom} : style \in BorderStyles}

InitBorder ==
    /\ InitIdle
    /\ \E widths \in SeqsUpTo(0..MaxColWidth, MaxCols), glyphs \in BorderGlyphSets,
          color \in {"", GREEN} :
          call = [fn |-> "get_tab_border", max_col_count |-> Len(widths),
                  col_width |-> widths, glyphs |-> glyphs, table_color |-> color,
                  returned |-> FALSE, result |-> <<>>]

BorderCall ==
    /\ pc = "call"
    /\ call.fn = "get_tab_border"
    /\ call' = [call EXCEPT !.returned = TRUE,
                            !.result = get_tab_border(call.max_col_count,
                                                      call.col_width,
                                                      call.glyphs.left,
                                                      call.glyphs.mid,
                                                      call.glyphs.right,
                                                      call.glyphs.fill,
                                                      call.table_color)]
    /\ pc' = "returned"
    /\ UNCHANGED <<options, colors, first_line, usrinput_header_data, stdin, pos,
                   cmdout_char_queue, temp_row_data, cmdout_tab_data,
                   tab_col_width, max_col_count, row_index, stdout>>

SpecBorder == InitBorder /\ [][BorderCall]_vars

(***************************************************************************)
(* Vocabulary of the properties, independent of the program's code.        *)
(***************************************************************************)
SetMax(S) == CHOOSE m \in S : \A x \in S : x <= m

Range(f) == {f[x] : x \in DOMAIN f}

RECURSIVE Sum(_)
Sum(s) == IF s = <<>> THEN 0 ELSE Head(s) + Sum(Tail(s))

RECURSIVE Concat(_)
Concat(ss) == IF ss = <<>> THEN <<>> ELSE Head(ss) \o Concat(Tail(ss))

\* The separator policy: the configured character or a newline, or any
\* whitespace when no exact separator is configured.
Whitespace == {" ", "\t", "\n", "\r", "\f", "VT"}

IsSeparator(c) ==
    IF col_separator \in {SPACE, TAB, NEWLINE}
    THEN c = col_separator \/ c = NEWLINE
    ELSE c \in Whitespace

IsContent(c) == ~IsSeparator(c)

IsNoEscape(token) == token \notin Escapes

\* The glyphs of an output, colour and style codes removed.
Visible(out) == SelectSeq(out, IsNoEscape)

\* The lines of an output, without their terminators.
RECURSIVE LinesFrom(_, _)
LinesFrom(out, line) ==
    IF out = <<>> THEN (IF line = <<>> THEN <<>> ELSE <<line>>)
    ELSE IF Head(out) = ENDL THEN <<line>> \o LinesFrom(Tail(out), <<>>)
    ELSE LinesFrom(Tail(out), Append(line, Head(out)))

Lines(out) == LinesFrom(out, <<>>)

RowLengths(rows) == {Len(rows[r]) : r \in 1..Len(rows)}

MaxRowLength(rows) == IF rows = <<>> THEN 0 ELSE SetMax(RowLengths(rows))

\* The lengths of the cells the rows have at column i.
ColumnCellLengths(rows, i) ==
    {Len(rows[r][i]) : r \in {q \in 1..Len(rows) : i <= Len(rows[q])}}

(***************************************************************************)
(* C1: once the widths are computed there is one width per column of the   *)
(* longest row, and each is the longest cell of its column plus the        *)
(* padding, hence at least the padding and at least every cell of the      *)
(* column; "a b\nccc dd\n" with padding 1 gives the widths 4 and 3.        *)
(***************************************************************************)
C1_ColumnWidths ==
    pc = "render" =>
        /\ max_col_count = MaxRowLength(cmdout_tab_data)
        /\ Len(tab_col_width) = MaxRowLength(cmdout_tab_data)
        /\ \A i \in 1..Len(tab_col_width) :
              /\ tab_col_width[i] =
                    SetMax(ColumnCellLengths(cmdout_tab_data, i)) + col_padding
              /\ tab_col_width[i] >= col_padding
              /\ \A r \in 1..Len(cmdout_tab_data) :
                    i <= Len(cmdout_tab_data[r]) =>
                        tab_col_width[i] >= Len(cmdout_tab_data[r][i])
        /\ (/\ stdin = ScenarioA
            /\ col_padding = 1
            /\ ~exclude_first_line
            /\ cmdout_tab_data[1] = << <<"a">>, <<"b">> >>)
           => tab_col_width = <<4, 3>>

\* A ragged table whose widths are computed with a padding, and scenario A.
C1_Witness ==
    /\ pc = "render"
    /\ stdin = ScenarioA
    /\ col_padding = 1
    /\ cmdout_tab_data = << << <<"a">>, <<"b">> >>,
                            << <<"c", "c", "c">>, <<"d", "d">> >> >>
    /\ tab_col_width = <<4, 3>>

(***************************************************************************)
(* C2: align_text never truncates: the result is max(width, len(text))     *)
(* long, is the text with only spaces around it, and is the text itself    *)
(* when the text is at least as long as the width.                         *)
(***************************************************************************)
C2_AlignNeverTruncates ==
    (call.fn = "align_text" /\ call.returned) =>
        LET text == call.string_to_align
            width == call.tab_col_width
            out == call.result[2]
        IN  /\ Len(out) = Max2(width, Len(text))
            /\ \E before \in 0..Len(out) :
                  /\ before + Len(text) <= Len(out)
                  /\ SubSeq(out, before + 1, before + Len(text)) = text
                  /\ \A j \in 1..Len(out) :
                        (j <= before \/ j > before + Len(text)) => out[j] = SPACE
            /\ (Len(text) >= width => out = text)

\* A text longer than the width went through align_text.
C2_Witness ==
    /\ call.fn = "align_text"
    /\ call.returned
    /\ Len(call.string_to_align) > call.tab_col_width
    /\ call.tab_col_width > 0
    /\ call.text_alignment = ALIGN_CENTER

(***************************************************************************)
(* C3: with pad = width - len(text) > 0, left alignment puts the pad       *)
(* spaces after the text, right alignment before it, and centre alignment  *)
(* floor(pad/2) before and the rest after it.                              *)
(***************************************************************************)
C3_PaddingPlacement ==
    (call.fn = "align_text" /\ call.returned
        /\ call.tab_col_width > Len(call.string_to_align)) =>
        LET text == call.string_to_align
            pad == call.tab_col_width - Len(text)
            out == call.result[2]
            leftpad == pad \div 2
            rightpad == pad - leftpad
        IN  /\ call.text_alignment = ALIGN_LEFT => out = text \o Spaces(pad)
            /\ call.text_alignment = ALIGN_RIGHT => out = Spaces(pad) \o text
            /\ call.text_alignment = ALIGN_CENTER =>
                  /\ out = Spaces(leftpad) \o text \o Spaces(rightpad)
                  /\ leftpad <= rightpad
                  /\ rightpad <= leftpad + 1

\* A text centred with an odd number of pad spaces.
C3_Witness ==
    /\ call.fn = "align_text"
    /\ call.returned
    /\ call.text_alignment = ALIGN_CENTER
    /\ call.string_to_align = <<"a", "b">>
    /\ call.tab_col_width = 5
    /\ call.result[2] = <<" ", "a", "b", " ", " ">>

(***************************************************************************)
(* C4: for a column count of at least one, a border line is the left       *)
(* glyph, then per column a run of exactly width[i] fill glyphs with one   *)
(* junction glyph between every two adjacent columns and none after the    *)
(* last, then the right glyph, then the line terminator.                   *)
(***************************************************************************)
RECURSIVE FillsAndJunctions(_, _, _)
FillsAndJunctions(widths, mid, fill) ==
    IF widths = <<>> THEN <<>>
    ELSE [n \in 1..Head(widths) |-> fill]
         \o (IF Len(widths) > 1 THEN <<mid>> ELSE <<>>)
         \o FillsAndJunctions(Tail(widths), mid, fill)

BorderLine(widths, glyphs) ==
    <<glyphs.left>> \o FillsAndJunctions(widths, glyphs.mid, glyphs.fill)
    \o <<glyphs.right>>

C4_BorderLineShape ==
    (call.fn = "get_tab_border" /\ call.returned /\ call.max_col_count >= 1) =>
        Visible(call.result) = BorderLine(call.col_width, call.glyphs) \o <<ENDL>>

(***************************************************************************)
(* C5: a border line has 2 + sum(width[i]) + (columnCount - 1) glyphs,     *)
(* colour codes and line terminator not counted.                           *)
(***************************************************************************)
C5_BorderLineLength ==
    (call.fn = "get_tab_border" /\ call.returned /\ call.max_col_count >= 1) =>
        Len(Visible(call.result)) - 1 =
            2 + Sum(call.col_width) + (call.max_col_count - 1)

(***************************************************************************)
(* C6: with borders enabled, the corner and junction glyphs of every       *)
(* border line of a rendered table are at the glyph positions of the       *)
(* vertical dividers of every rendered row.                                *)
(***************************************************************************)
BorderLeftGlyphs ==
    {tab_border_style.top.left, tab_border_style.separator.left,
     tab_border_style.bottom.left}

BorderFillGlyphs ==
    {tab_border_style.top.fill, tab_border_style.separator.fill,
     tab_border_style.bottom.fill}

IsBorderLine(line) == line # <<>> /\ line[1] \in BorderLeftGlyphs

IsRowLine(line) == line # <<>> /\ line[1] = tab_border_style.vertical_line

JunctionPositions(line) == {k \in 1..Len(line) : line[k] \notin BorderFillGlyphs}

DividerPositions(line) ==
    {k \in 1..Len(line) : line[k] = tab_border_style.vertical_line}

C6_BordersUnderDividers ==
    (pc = "done" /\ use_border) =>
        LET lines == Lines(Visible(stdout))
        IN  \A b \in 1..Len(lines), r \in 1..Len(lines) :
                (IsBorderLine(lines[b]) /\ IsRowLine(lines[r])) =>
                    JunctionPositions(lines[b]) = DividerPositions(lines[r])

(***************************************************************************)
(* C7: every cell the tokenizer stores is a maximal run of non-separator   *)
(* input characters: not empty, without a separator, and bounded in the    *)
(* input on each side by a separator or by an end of the stream.           *)
(***************************************************************************)
IsMaximalRun(cell) ==
    /\ cell # <<>>
    /\ \A k \in 1..Len(cell) : IsContent(cell[k])
    /\ \E from \in 1..Len(stdin) :
          LET to == from + Len(cell) - 1
          IN  /\ to <= Len(stdin)
              /\ SubSeq(stdin, from, to) = cell
              /\ (from = 1 \/ IsSeparator(stdin[from - 1]))
              /\ (to = Len(stdin) \/ IsSeparator(stdin[to + 1]))

CollectedRows == Range(cmdout_tab_data) \cup {temp_row_data}

C7_CellsAreMaximalRuns ==
    pc \in {"read", "header"} =>
        \A row \in CollectedRows : \A k \in 1..Len(row) : IsMaximalRun(row[k])

\* With the tab as separator a cell holding a space is stored next to
\* another cell.
C7_Witness ==
    /\ pc = "header"
    /\ col_separator = TAB
    /\ \E r \in 1..Len(cmdout_tab_data) :
          /\ Len(cmdout_tab_data[r]) = 2
          /\ SPACE \in Range(cmdout_tab_data[r][1])

(***************************************************************************)
(* C8: with space, tab or newline configured, a character read is a        *)
(* separator iff it is the configured character or a newline; with no      *)
(* exact separator it is one iff it is a whitespace character.  A          *)
(* separator empties the token buffer, any other character joins it.       *)
(***************************************************************************)
C8_SeparatorPolicy ==
    [][pos' = pos + 1 =>
          LET c == stdin[pos + 1]
              separator == IF col_separator \in {SPACE, TAB, NEWLINE}
                           THEN c = col_separator \/ c = NEWLINE
                           ELSE c \in Whitespace
          IN  /\ separator <=> cmdout_char_queue' = <<>>
              /\ ~separator <=> cmdout_char_queue' = Append(cmdout_char_queue, c)]_vars

\* Under the tab separator a space is buffered as content, and under the
\* space separator a tab is.
C8_Witness ==
    /\ pc = "read"
    /\ \/ col_separator = TAB /\ cmdout_char_queue = <<"a", " ">>
       \/ col_separator = SPACE /\ cmdout_char_queue = <<"a", "\t">>

(***************************************************************************)
(* C9: a newline ends the current row whether or not it closed a token,    *)
(* and only rows with a cell are stored: no stored row is empty, after a   *)
(* newline no row is pending, with header exclusion off the table has one  *)
(* row per input line that has content, and "x\n\ny\n" gives the rows      *)
(* ["x"] and ["y"].                                                        *)
(***************************************************************************)
\* The number of input lines holding at least one content character.
RECURSIVE ContentLines(_, _)
ContentLines(input, content) ==
    IF input = <<>> THEN (IF content THEN 1 ELSE 0)
    ELSE IF Head(input) = NEWLINE
    THEN (IF content THEN 1 ELSE 0) + ContentLines(Tail(input), FALSE)
    ELSE ContentLines(Tail(input), content \/ IsContent(Head(input)))

C9_NewlineEndsRow ==
    /\ \A r \in 1..Len(cmdout_tab_data) : cmdout_tab_data[r] # <<>>
    /\ (pc = "read" /\ pos > 0 /\ stdin[pos] = NEWLINE) => temp_row_data = <<>>
    /\ (pc = "header" /\ ~exclude_first_line) =>
          Len(cmdout_tab_data) = ContentLines(stdin, FALSE)
    /\ (pc = "header" /\ ~exclude_first_line /\ stdin = ScenarioB) =>
          cmdout_tab_data = << << <<"x">> >>, << <<"y">> >> >>

\* The blank line of scenario B has been read and has added no row.
C9_Witness ==
    /\ pc = "read"
    /\ stdin = ScenarioB
    /\ pos = 3
    /\ cmdout_tab_data = << << <<"x">> >> >>
    /\ temp_row_data = <<>>

(***************************************************************************)
(* C10: at the end of the stream the buffered characters become a final    *)
(* token and a pending row a final row: with header exclusion off the      *)
(* cells of the table, in order, hold exactly the non-separator            *)
(* characters of the input, with or without a final newline.               *)
(***************************************************************************)
C10_NoCharacterDropped ==
    (pc = "header" /\ ~exclude_first_line) =>
        Concat(Concat(cmdout_tab_data)) = SelectSeq(stdin, IsContent)

\* An input that ends in a content character after a complete first row.
C10_Witness ==
    /\ pc = "header"
    /\ ~exclude_first_line
    /\ stdin = <<"a", "\n", "b", "a">>
    /\ cmdout_tab_data = << << <<"a">> >>, << <<"b", "a">> >> >>

(***************************************************************************)
(* The rows of an input according to the separator policy: the lines       *)
(* between newlines, each split into its maximal runs of content           *)
(* characters, lines without content left out.                             *)
(***************************************************************************)
RECURSIVE RunsFrom(_, _)
RunsFrom(input, run) ==
    IF input = <<>> THEN (IF run = <<>> THEN <<>> ELSE <<run>>)
    ELSE IF IsSeparator(Head(input))
    THEN (IF run = <<>> THEN <<>> ELSE <<run>>) \o RunsFrom(Tail(input), <<>>)
    ELSE RunsFrom(Tail(input), Append(run, Head(input)))

RowOfLine(line) ==
    LET runs == RunsFrom(line, <<>>) IN IF runs = <<>> THEN <<>> ELSE <<runs>>

RECURSIVE RowsFrom(_, _)
RowsFrom(input, line) ==
    IF input = <<>> THEN RowOfLine(line)
    ELSE IF Head(input) = NEWLINE
    THEN RowOfLine(line) \o RowsFrom(Tail(input), <<>>)
    ELSE RowsFrom(Tail(input), Append(line, Head(input)))

RowsOf(input) == RowsFrom(input, <<>>)

HasNewline(input) == NEWLINE \in Range(input)

\* The input after its first newline, empty when it has none.
RECURSIVE AfterFirstNewline(_)
AfterFirstNewline(input) ==
    IF input = <<>> THEN <<>>
    ELSE IF Head(input) = NEWLINE THEN Tail(input)
    ELSE AfterFirstNewline(Tail(input))

(***************************************************************************)
(* C11: with header exclusion set, whether or not a newline ends the       *)
(* first row, no token of the first input row is stored and the table      *)
(* starts at the second input row: the collected table is the rows of      *)
(* the input after its first newline.                                      *)
(***************************************************************************)
C11_FirstRowExcluded ==
    (pc = "header" /\ exclude_first_line) =>
        cmdout_tab_data = RowsOf(AfterFirstNewline(stdin))

(***************************************************************************)
(* C12: with a non-empty explicit header list and header exclusion off,    *)
(* the header override leaves the explicit header list as row 0 of the     *)
(* table, in place of the first collected row, and every other row as it   *)
(* was; scenario D with the header id,name has the header row id, name.    *)
(***************************************************************************)
C12_HeaderReplacesRow0 ==
    [][(pc = "header" /\ usrinput_header_data # <<>> /\ ~exclude_first_line) =>
          /\ pc' = "widths"
          /\ cmdout_tab_data' # <<>>
          /\ cmdout_tab_data'[1] = usrinput_header_data
          /\ Len(cmdout_tab_data') = Max2(1, Len(cmdout_tab_data))
          /\ \A r \in 2..Len(cmdout_tab_data) :
                cmdout_tab_data'[r] = cmdout_tab_data[r]
          /\ (stdin = ScenarioD /\ col_separator = SPACE) =>
                cmdout_tab_data' = << usrinput_header_data, << <<"a">>, <<"b">> >> >>]_vars

\* The glyphs of the header names that no input of the model holds.
HeaderOnlyGlyphs == {"i", "n", "m", "e"}

(***************************************************************************)
(* C13: header exclusion takes precedence over an explicit header list:    *)
(* when both are given the list is never applied, and no row of the table  *)
(* and no part of the output holds a header name.                          *)
(***************************************************************************)
C13_ExclusionBeatsHeader ==
    exclude_first_line =>
        /\ \A r \in 1..Len(cmdout_tab_data) :
              /\ cmdout_tab_data[r] # HeaderIdName
              /\ \A k \in 1..Len(cmdout_tab_data[r]) :
                    cmdout_tab_data[r][k] \notin Range(HeaderIdName)
        /\ Range(stdout) \cap HeaderOnlyGlyphs = {}

\* Both options given and a table of two rows printed to the end.
C13_Witness ==
    /\ pc = "done"
    /\ exclude_first_line
    /\ usrinput_header_data = HeaderIdName
    /\ row_index = 2
    /\ stdout # <<>>

IsSuffix(tail, whole) ==
    /\ Len(tail) <= Len(whole)
    /\ SubSeq(whole, Len(whole) - Len(tail) + 1, Len(whole)) = tail

RowLineCount(out) ==
    LET lines == Lines(Visible(out))
    IN  Cardinality({k \in 1..Len(lines) : IsRowLine(lines[k])})

Padded(text, width, alignment) ==
    LET pad == width - Len(text)
    IN  IF alignment = ALIGN_RIGHT THEN Spaces(pad) \o text
        ELSE IF alignment = ALIGN_CENTER
        THEN Spaces(pad \div 2) \o text \o Spaces(pad - pad \div 2)
        ELSE text \o Spaces(pad)

HeaderSection ==
    [alignment |-> header_text_align,
     style |-> Tok(colors.header_text_style) \o Tok(colors.header_bg_color)
               \o Tok(colors.header_text_color)]

BodySection ==
    [alignment |-> body_text_align,
     style |-> Tok(colors.body_text_style) \o Tok(colors.body_bg_color)
               \o Tok(colors.body_text_color)]

CellText(row, i) == IF i <= Len(row) THEN row[i] ELSE <<>>

\* The line of a row printed in a section, with its colour and style codes.
RECURSIVE SectionCells(_, _, _)
SectionCells(row, i, section) ==
    IF i > max_col_count THEN <<>>
    ELSE section.style
         \o Padded(CellText(row, i), tab_col_width[i], section.alignment)
         \o <<DEFAULT>> \o Tok(colors.table_color)
         \o (IF use_border THEN <<tab_border_style.vertical_line>> ELSE <<>>)
         \o SectionCells(row, i + 1, section)

SectionLine(row, section) ==
    (IF use_border
     THEN Tok(colors.table_color) \o <<tab_border_style.vertical_line, DEFAULT>>
     ELSE <<>>)
    \o SectionCells(row, 1, section)

IsSeparatorLine(line) ==
    line # <<>> /\ line[1] = tab_border_style.separator.left

\* What a step has added to the output.
Emitted == SubSeq(stdout', Len(stdout) + 1, Len(stdout'))

C15_SectionSelection ==
    [][row_index' = row_index + 1 =>
          \E lines \in {Lines(Emitted)} :
             LET rows == {k \in 1..Len(lines) : ~IsBorderLine(Visible(lines[k]))}
                 section == IF row_index = 0 /\ ~headerless
                            THEN HeaderSection ELSE BodySection
             IN  /\ Cardinality(rows) = 1
                 /\ \A k \in rows :
                       lines[k] = SectionLine(cmdout_tab_data[row_index + 1], section)
                 /\ headerless =>
                       \A k \in 1..Len(lines) : ~IsSeparatorLine(Visible(lines[k]))]_vars

\* A bold, centred header row followed by a right-aligned body row.
C15_Witness ==
    /\ pc = "render"
    /\ ~headerless
    /\ row_index = 2
    /\ header_text_align = ALIGN_CENTER
    /\ body_text_align = ALIGN_RIGHT
    /\ colors = myth_colors
    /\ col_padding = 1
    /\ ~use_border
    /\ stdout = <<BOLD, BG_RED, WHITE, "a", " ", DEFAULT, RED, ENDL,
                  BG_BLACK, MAGENTA, " ", "a", DEFAULT, RED, ENDL>>

(***************************************************************************)
(* C16: every rendered row, ragged or not, has exactly max-column-count    *)
(* cells: cell i is width[i] glyphs wide and holds the row's own cell i    *)
(* with only spaces around it, or only spaces when the row has no cell     *)
(* i; with borders enabled the row has max-column-count + 1 dividers,      *)
(* one before the first cell and one after each cell, and with borders     *)
(* disabled it has none.                                                   *)
(***************************************************************************)
DividerWidth == IF use_border THEN 1 ELSE 0

\* The glyph position before cell i of a row line.
CellOffset(i) ==
    DividerWidth + Sum([j \in 1..(i - 1) |-> tab_col_width[j] + DividerWidth])

\* The text with nothing but spaces around it.
HoldsOnly(segment, text) ==
    \E before \in 0..(Len(segment) - Len(text)) :
        /\ SubSeq(segment, before + 1, before + Len(text)) = text
        /\ \A j \in 1..Len(segment) :
              (j <= before \/ j > before + Len(text)) => segment[j] = SPACE

C16_RowCells ==
    [][row_index' = row_index + 1 =>
          \E lines \in {Lines(Visible(Emitted))} :
             LET rows == {k \in 1..Len(lines) : ~IsBorderLine(lines[k])}
                 row == cmdout_tab_data[row_index + 1]
             IN  /\ Cardinality(rows) = 1
                 /\ \A k \in rows : \E line \in {lines[k]} :
                       /\ Len(line) = CellOffset(max_col_count + 1)
                       /\ \A i \in 1..max_col_count :
                             HoldsOnly(SubSeq(line, CellOffset(i) + 1,
                                              CellOffset(i) + tab_col_width[i]),
                                       CellText(row, i))
                       /\ DividerPositions(line) =
                             IF use_border
                             THEN {1} \cup {CellOffset(i + 1) : i \in 1..max_col_count}
                             ELSE {}
                       /\ Cardinality(DividerPositions(line)) =
                             IF use_border THEN max_col_count + 1 ELSE 0]_vars

\* The shorter second row of scenario C rendered with its empty third cell.
C16_Witness ==
    /\ pc = "render"
    /\ stdin = ScenarioC
    /\ ~headerless
    /\ use_border
    /\ col_padding = 1
    /\ max_col_count = 3
    /\ row_index = 2
    /\ Len(cmdout_tab_data[2]) = 2
    /\ LET lines == Lines(Visible(stdout))
       IN  lines[Len(lines)] =
              <<"U+2502", "4", " ", "U+2502", "5", " ", "U+2502", " ", " ", "U+2502">>

(***************************************************************************)
(* C17: with borders enabled the finished output starts with the top       *)
(* border and ends with the bottom border, each printed exactly once;      *)
(* between them there is one line per row of the table, in table order,    *)
(* and no border line between two body rows.                               *)
(***************************************************************************)
IsTopLine(line) == line # <<>> /\ line[1] = tab_border_style.top.left

IsBottomLine(line) == line # <<>> /\ line[1] = tab_border_style.bottom.left

IsCellGlyph(glyph) == glyph \notin {SPACE, tab_border_style.vertical_line}

C17_LineOrder ==
    /\ (pc = "done" /\ use_border) =>
          \E lines \in {Lines(Visible(stdout))} :
             /\ Len(lines) >= 2
             /\ IsTopLine(lines[1])
             /\ IsBottomLine(lines[Len(lines)])
             /\ Cardinality({k \in 1..Len(lines) : IsTopLine(lines[k])}) = 1
             /\ Cardinality({k \in 1..Len(lines) : IsBottomLine(lines[k])}) = 1
             /\ Cardinality({k \in 1..Len(lines) : IsRowLine(lines[k])}) = row_index
             /\ \A k \in 2..(Len(lines) - 1) :
                   IsRowLine(lines[k]) \/ (k = 3 /\ IsSeparatorLine(lines[k]))
    /\ (pc = "render" /\ use_border) =>
          \E lines \in {SelectSeq(Lines(Visible(stdout)), IsRowLine)} :
             /\ Len(lines) = row_index
             /\ \A k \in 1..Len(lines) :
                   SelectSeq(lines[k], IsCellGlyph) = Concat(cmdout_tab_data[k])

(***************************************************************************)
(* C18: the header/body separator line is printed iff headerless mode is   *)
(* off, the separator and the borders are enabled and the table has a      *)
(* row; it is then printed exactly once, right after the first rendered    *)
(* row and before any body row.                                            *)
(***************************************************************************)
C18_HeaderSeparator ==
    \E lines \in {Lines(Visible(stdout))} :
       LET separators == {k \in 1..Len(lines) : IsSeparatorLine(lines[k])}
           due == ~headerless /\ use_separator /\ use_border /\ row_index >= 1
       IN  /\ Cardinality(separators) = IF due THEN 1 ELSE 0
           /\ due =>
                 /\ separators = {3}
                 /\ IsTopLine(lines[1])
                 /\ IsRowLine(lines[2])
                 /\ \A k \in 4..Len(lines) : IsRowLine(lines[k]) \/ IsBottomLine(lines[k])

\* A table of two rows printed to the end with its separator as third line.
C18_Witness ==
    /\ pc = "done"
    /\ ~headerless
    /\ use_separator
    /\ use_border
    /\ row_index = 2
    /\ \E lines \in {Lines(Visible(stdout))} :
          /\ Len(lines) = 5
          /\ IsRowLine(lines[2])
          /\ IsSeparatorLine(lines[3])
          /\ IsRowLine(lines[4])

(***************************************************************************)
(* C19: for a table of zero rows the output is the top border line         *)
(* followed by the bottom border line when borders are enabled, and        *)
(* nothing when they are disabled.                                         *)
(***************************************************************************)
C19_EmptyTableOutput ==
    (pc = "done" /\ row_index = 0) =>
        Visible(stdout) =
            IF use_border
            THEN BorderLine(<<>>, tab_border_style.top) \o <<ENDL>>
                 \o BorderLine(<<>>, tab_border_style.bottom) \o <<ENDL>>
            ELSE <<>>

(***************************************************************************)
(* C20: for every input and every validated configuration the run goes     *)
(* from parsing to the end of rendering without an access to a row or      *)
(* column that does not exist: the header override never finds the table   *)
(* empty, and the process is never killed.                                 *)
(***************************************************************************)
C20_NoInvalidAccess ==
    /\ pc # "crash"
    /\ ~(/\ pc = "header"
         /\ usrinput_header_data # <<>>
         /\ ~exclude_first_line
         /\ cmdout_tab_data = <<>>)

(***************************************************************************)
(* C21: no column width is computed and nothing is printed before the end *)
(* of the input: every read of a character comes before the width          *)
(* computation, the width computation comes before every output, and the   *)
(* widths are not modified once output has begun; they are assigned by the *)
(* width computation only, and released by the cleanup before exit, after  *)
(* the bottom border, the last output, has been printed from them.         *)
(***************************************************************************)
C21_ReadThenWidthsThenOutput ==
    [][/\ pos' # pos =>
             (pc = "read" /\ tab_col_width = <<>> /\ max_col_count = 0 /\ stdout = <<>>)
       /\ pc = "widths" => (pos = Len(stdin) /\ stdout = <<>> /\ pc' = "render")
       /\ stdout' # stdout => (pos = Len(stdin) /\ pc = "render")
       /\ max_col_count' # max_col_count => pc = "widths"
       /\ tab_col_width' # tab_col_width =>
             \/ pc = "widths"
             \/ /\ pc = "render"
                /\ pc' = "done"
                /\ tab_col_width' = <<>>
                /\ stdout' = stdout \o (IF use_border
                                         THEN Border(tab_border_style.bottom)
                                         ELSE <<>>)]_vars

\* A first row printed from widths computed after the last character, with
\* a second row still to print.
C21_Witness ==
    /\ pc = "render"
    /\ pos = Len(stdin)
    /\ pos >= 3
    /\ row_index = 1
    /\ Len(cmdout_tab_data) = 2
    /\ tab_col_width # <<>>
    /\ stdout # <<>>

\* The border colours of the palettes.
BorderColours == {myth_colors.table_color}

\* Every glyph of the border style.
TableGlyphs ==
    {tab_border_style.vertical_line}
    \cup UNION {{glyphs.left, glyphs.mid, glyphs.right, glyphs.fill} :
                  glyphs \in {tab_border_style.top, tab_border_style.separator,
                              tab_border_style.bottom}}

IsCellText(token) == token \notin Escapes \cup TableGlyphs \cup {ENDL}

\* The escapes in force after a token: a reset ends all of them.
ActiveAfter(active, token) ==
    IF token = DEFAULT THEN {}
    ELSE IF token \in Escapes THEN active \cup {token}
    ELSE active

\* No line end and no cell text of out is reached with a forbidden escape in
\* force, and none is in force after the last token; active holds the
\* escapes in force before out.
RECURSIVE StylesClosed(_, _)
StylesClosed(out, active) ==
    IF out = <<>> THEN active = {}
    ELSE /\ Head(out) = ENDL => active = {}
         /\ IsCellText(Head(out)) => active \cap BorderColours = {}
         /\ StylesClosed(Tail(out), ActiveAfter(active, Head(out)))

(***************************************************************************)
(* C22: in the output, every colour or style escape is reset before the    *)
(* end of the run it opens: none is in force at the end of an output line  *)
(* or at the end of the output, and the border colour is never in force    *)
(* while cell text is printed.                                             *)
(***************************************************************************)
C22_StylesReset == pc = "done" => StylesClosed(stdout, {})

IsNoBorderLine(line) == ~IsBorderLine(line)

IsNoDivider(glyph) == glyph # tab_border_style.vertical_line

\* The rows read back from an output: its row lines, colour codes and
\* dividers removed, cut into tokens by the separator policy.
RetokenizedRows(out) ==
    LET row_lines == SelectSeq(Lines(Visible(out)), IsNoBorderLine)
    IN  [r \in 1..Len(row_lines) |->
            RunsFrom(SelectSeq(row_lines[r], IsNoDivider), <<>>)]

(***************************************************************************)
(* C23: round trip: when every row of the table has been printed, cutting  *)
(* the printed row lines, styling removed, into tokens by the same         *)
(* separator policy gives back the cells of the table, row by row.         *)
(***************************************************************************)
C23_RoundTrip ==
    (pc = "render" /\ row_index = Len(cmdout_tab_data)) =>
        RetokenizedRows(stdout) = cmdout_tab_data

\* The --theme arguments with a theme the program has.
ThemeArguments ==
    {<<"-", "-", "t", "h", "e", "m", "e", "=", "m", "a", "t", "r", "i", "x">>,
     <<"-", "-", "t", "h", "e", "m", "e", "=", "m", "y", "t", "h">>,
     <<"-", "-", "t", "h", "e", "m", "e", "=", "s", "t", "i", "c", "k", "y">>}

\* The style fields of a configuration: border glyph set, colours and text
\* decorations, alignments.
StyleFields(cfg) ==
    <<cfg.tab_border_style, cfg.colors, cfg.header_text_align, cfg.body_text_align>>

\* An individual style option leaves its value in its field.
IndividualOptionApplied ==
    /\ Head(argv) = <<"-", "-", "h", "b", "g", "-", "c", "o", "l", "o", "r", "=", "r", "e", "d">> =>
          colors'.header_bg_color = BG_RED
    /\ Head(argv) = <<"-", "-", "b", "t", "e", "x", "t", "-", "s", "t", "y", "l", "e", "=", "i", "t", "a", "l", "i", "c">> =>
          colors'.body_text_style = ITALIC
    /\ Head(argv) = <<"-", "-", "b", "t", "e", "x", "t", "-", "a", "l", "i", "g", "n", "=", "r", "i", "g", "h", "t">> =>
          body_text_align' = ALIGN_RIGHT
    /\ Head(argv) = <<"-", "-", "t", "a", "b", "-", "c", "o", "l", "o", "r", "=", "b", "l", "u", "e">> =>
          colors'.table_color = BLUE
    /\ Head(argv) = <<"-", "-", "b", "o", "r", "d", "e", "r", "-", "s", "t", "y", "l", "e", "=", "s", "t", "a", "r">> =>
          tab_border_style' = star_border_style
    /\ Head(argv) = <<"-", "-", "t", "e", "x", "t", "-", "c", "o", "l", "o", "r", "=", "c", "y", "a", "n">> =>
          (colors'.header_text_color = CYAN /\ colors'.body_text_color = CYAN)

(***************************************************************************)
(* C24: last applied wins: handling a theme leaves every style field       *)
(* (border glyph set, border colour, header and body colours, backgrounds, *)
(* text decorations, alignments) as the theme alone sets it, whatever the  *)
(* earlier options had set, and handling an individual style option leaves *)
(* its value in its field, whatever a theme had set before.                *)
(***************************************************************************)
C24_LastAppliedWins ==
    [][(pc = "options" /\ argv # <<>>) =>
          /\ Head(argv) \in ThemeArguments =>
                StyleFields(Configuration') =
                    StyleFields(option_handler(DefaultConfiguration, Head(argv)).cfg)
          /\ IndividualOptionApplied]_vars

\* The states of the core: the pipeline from the first read to the end.
CoreStates == {"read", "header", "widths", "render", "done", "crash"}

\* Nothing read and nothing printed.
NothingDone == pos = 0 /\ stdout = <<>> /\ cmdout_tab_data = <<>>

\* The values the core may be given.
ValidatedConfiguration ==
    /\ col_padding >= 0
    /\ header_text_align \in Alignments
    /\ body_text_align \in Alignments
    /\ col_separator \in {SPACE, TAB, NEWLINE, VOID}

(***************************************************************************)
(* C25: the configuration is validated before the core runs: when the      *)
(* option loop comes to an argument with an unknown name, without a value  *)
(* or with an invalid value (a negative or non-numeric padding included),  *)
(* main returns 1 with no character read and nothing printed; the core     *)
(* runs only after every argument has been handled, with a padding >= 0    *)
(* and alignments and a separator from their closed sets.                  *)
(***************************************************************************)
C25_ValidatedBeforeCore ==
    [][/\ (pc = "options" /\ argv # <<>> /\ Head(argv) \in InvalidArguments) =>
             (pc' = "return 1" /\ NothingDone')
       /\ pc' = "return 1" => NothingDone'
       /\ pc' \in CoreStates => (argv' = <<>> /\ ValidatedConfiguration')]_vars

(***************************************************************************)
(* C26: header exclusion and headerless rendering are one coupled setting: *)
(* in every state, and so after the option loop, exclude_first_line is     *)
(* true iff headerless is true: no configuration leaves out the first      *)
(* input line while rendering a header row, and none renders headerless    *)
(* while keeping the first input line.                                     *)
(***************************************************************************)
C26_ExclusionIffHeaderless == exclude_first_line <=> headerless

\* The core printing a row after -s or --simplify was handled.
C26_Witness ==
    /\ pc = "render"
    /\ row_index = 1
    /\ headerless
    /\ exclude_first_line
    /\ stdout # <<>>

\* The longest cell of column i (1-based) of the rows, 0 when no row has it.
LongestCell(rows, i) ==
    SetMax({0} \cup {Len(rows[r][i]) : r \in {q \in 1..Len(rows) : i <= Len(rows[q])}})

(***************************************************************************)
(* C27: the header override is applied before the column count and the     *)
(* widths are computed: when the explicit header has replaced row 0, the   *)
(* column count is the maximum of the header's length and the lengths of   *)
(* the input rows after the first, and each width is the longest cell of   *)
(* its column among the header and those rows, plus the padding; the cells *)
(* of the replaced first input row count for neither.                      *)
(***************************************************************************)
C27_WidthsAfterOverride ==
    [][/\ usrinput_header_data' # usrinput_header_data =>
             (pc = "header" /\ pc' = "widths" /\ tab_col_width = <<>> /\ max_col_count = 0)
       /\ (pc = "widths" /\ ~exclude_first_line /\ cmdout_tab_data # <<>>
              /\ cmdout_tab_data[1] = HeaderIdName) =>
             \E rows \in {<<HeaderIdName>> \o Tail(RowsOf(stdin))} :
                /\ max_col_count' = MaxRowLength(rows)
                /\ tab_col_width' =
                      [i \in 1..MaxRowLength(rows) |-> LongestCell(rows, i) + col_padding]]_vars

\* Scenario C under the header id,name: the replaced first row has three
\* cells, the table two columns.
C27_Witness ==
    /\ pc = "render"
    /\ stdin = ScenarioC
    /\ cmdout_tab_data = <<HeaderIdName, << <<"4">>, <<"5">> >> >>
    /\ max_col_count = 2
    /\ tab_col_width = <<2 + col_padding, 4 + col_padding>>

\* The number of dividers of a line.
DividerCount(line) == Cardinality({k \in 1..Len(line) : line[k] = tab_border_style.vertical_line})

(***************************************************************************)
(* C28: all printed row lines of a table have the same visible length:     *)
(* without the colour codes each has sum(width[i]) cell characters, plus   *)
(* max_col_count + 1 dividers when borders are enabled and none when they  *)
(* are disabled, and no cell of the table is longer than the width of its  *)
(* column.                                                                 *)
(***************************************************************************)
C28_RowLinesSameLength ==
    pc = "render" =>
        /\ \A r \in 1..Len(cmdout_tab_data) : \A i \in 1..Len(cmdout_tab_data[r]) :
              Len(cmdout_tab_data[r][i]) <= tab_col_width[i]
        /\ \E row_lines \in {SelectSeq(Lines(Visible(stdout)), IsNoBorderLine)} :
              /\ Len(row_lines) = row_index
              /\ \A r \in 1..Len(row_lines) :
                    /\ DividerCount(row_lines[r]) = (IF use_border THEN max_col_count + 1 ELSE 0)
                    /\ Len(row_lines[r]) =
                          Sum(tab_col_width) + DividerCount(row_lines[r])

\* Scenario C printed with borders: a row of three cells and a row of two.
C28_Witness ==
    /\ pc = "render"
    /\ row_index = 2
    /\ stdin = ScenarioC
    /\ Len(cmdout_tab_data[1]) = 3
    /\ Len(cmdout_tab_data[2]) = 2
    /\ use_border
    /\ body_text_align = ALIGN_RIGHT
    /\ col_padding = 1

====
